---- MODULE Spec2Model ----
(***************************************************************************)
(* The job lifecycle engine of src/server.js: the task queue, the claim    *)
(* protocol (/gettask), heartbeats, the heartbeat monitor (setInterval),   *)
(* result submission (/uploadresult), cancellation, deletion, the result   *)
(* download gate and the progress feed.                                    *)
(*                                                                         *)
(* Node runs every handler on one thread: a handler runs without           *)
(* interruption from one `await` to the next.  Each action below is one    *)
(* such uninterrupted stretch; a handler with awaits in its middle is a    *)
(* sequence of actions, its position kept in calls / sweep / creating.     *)
(* Awaits with no access to shared state between them are one suspension.  *)
(* The await of validateWorker precedes every access to shared state, so   *)
(* it is folded into the arrival of the request.                           *)
(*                                                                         *)
(* Scope.  recordFeed is set by the initial predicate and never changes:   *)
(* it says whether the entries of taskUpdates are kept.  No handler but    *)
(* /getUpdate reads taskUpdates and /getUpdate writes nothing else, so the *)
(* job store behaves the same with and without the entries; the            *)
(* specifications about the job store run without them, the                *)
(* specifications about the feed with them.  Each specification draws the  *)
(* requests' inputs from its own sets.                                     *)
(***************************************************************************)
EXTENDS Integers, Sequences, FiniteSets, TLC

\* ------------------------------------------------------------------ bounds
MaxClock == 1       \* how many times the clock advances (Spec)
MaxStallClock == 2  \* how many times the clock advances (SpecStall)
MaxFeed == 3        \* /cancel is not repeated once the feed is this long

\* ------------------------------------------------------- program constants
HEARTBEAT_TIMEOUT == 30000

\* The clock advances in steps that make every older heartbeat stale.
ClockStep == HEARTBEAT_TIMEOUT + 1

Workers == {"w1", "w2"}
CustomerIds == {1, 2}
NoWorker == "-"

\* req.body.customerId of a /heartbeat that names no job: "idle" or missing.
IdleMarker == 0

\* req.body.respn as sent by the client.
RespnInputs == {-1, 0, 1, 2}

\* The files of one /uploadresult request: fileMap.result[0].buffer,
\* fileMap.usage[0].buffer and the names of the output_<name> fields.
Payloads ==
  { [result |-> "r1", usage |-> "u1", outputs |-> {}],
    [result |-> "r2", usage |-> "u2", outputs |-> {"f"}] }
NoFiles == [result |-> "none", usage |-> "none", outputs |-> {}]

VARIABLES
  now,                \* Date.now()
  issued,             \* the customer ids generateUniqueCustomerId has returned
  registered,         \* the resource providers of the users table
  recordFeed,         \* whether the entries of taskUpdates are kept
  reported,           \* the customer ids /taskstatus has reported completed
  taskQueue,          \* sequence of customerId (a unit is {customerId, taskId})
  taskProgressQueue,  \* sequence of customerId
  customers,          \* the keys present in the customers map
  jobs,               \* the job object of every customer id
  taskUpdates,        \* customerId -> sequence of updates (keys present only)
  cancelMap,          \* the customerIds whose cancelMap entry is true
  calls,              \* per worker: its suspended /gettask or /uploadresult
  sweep,              \* the heartbeat monitor's suspended pass
  creating,           \* /sendingpackage calls awaiting the files insert
  resp                \* the response sent by the last step, if any

scope == <<issued, registered, recordFeed, reported>>
vars == <<now, issued, registered, recordFeed, reported, taskQueue, taskProgressQueue,
          customers, jobs, taskUpdates, cancelMap, calls, sweep, creating, resp>>

\* ----------------------------------------------------------------- helpers
EmptyMap == [x \in {} |-> 0]
Put(f, k, v) == [x \in (DOMAIN f) \cup {k} |-> IF x = k THEN v ELSE f[x]]
Del(f, k) == [x \in (DOMAIN f) \ {k} |-> f[x]]
Has(f, k) == k \in DOMAIN f

Range(s) == {s[i] : i \in 1..Len(s)}
Count(s, x) == Cardinality({i \in 1..Len(s) : s[i] = x})
Filter(s, x) == SelectSeq(s, LAMBDA y : y # x)

RECURSIVE RemoveOne(_, _)
RemoveOne(s, x) ==
  IF s = <<>> THEN <<>>
  ELSE IF Head(s) = x THEN Tail(s)
  ELSE <<Head(s)>> \o RemoveOne(Tail(s), x)

Max(a, b) == IF a > b THEN a ELSE b

NoResp == [op |-> "none", customerId |-> 0, workerId |-> NoWorker,
           status |-> "none", info |-> 0]
Resp(op, c, w, status, info) ==
  [op |-> op, customerId |-> c, workerId |-> w, status |-> status, info |-> info]

IdleCall == [pc |-> "idle", customerId |-> 0, payload |-> NoFiles, index |-> 0]
IdleSweep == [pc |-> "idle", now |-> 0, tasks |-> <<>>, cur |-> 0,
              ws |-> <<>>, evicted |-> NoWorker]

\* parseInt(req.body.respn, 10) || 1
ParseRespn(respn) == IF respn = 0 THEN 1 ELSE respn

\* workerIndex is not a field of the code's job object: it records, for the
\* workers assigned to the job, the workerIndex their /gettask was answered
\* with (line 1235 and the response, line 1265).
NewJob(n) ==
  [numWorkers |-> n, workers |-> <<>>, results |-> EmptyMap, usage |-> EmptyMap,
   outputFiles |-> EmptyMap, pendingWorkers |-> n, workerHeartbeats |-> EmptyMap,
   workerIndex |-> EmptyMap,
   isCompleted |-> FALSE, isCancelled |-> FALSE, completionNotified |-> FALSE]

\* A job object that was deleted from customers and that no suspended handler
\* holds any more is garbage: it is reset, so that states differing only in
\* garbage are one state.  /uploadresult and the monitor keep their
\* customerTask across awaits; /gettask reads customers[...] again.
Held(c, cl, sw) ==
  \/ \E w \in Workers : cl[w].pc \in {"stored", "counted"} /\ cl[w].customerId = c
  \/ sw.pc = "evicting" /\ sw.cur = c

Collect(jb, cs, cl, sw) ==
  [c \in CustomerIds |->
     IF c \notin cs /\ ~Held(c, cl, sw) THEN NewJob(0) ELSE jb[c]]

Update(kind, status, w) ==
  [update |-> kind, status |-> status, worker |-> w, timestamp |-> now]

\* taskUpdates[customerId] || []
Feed(tu, c) == IF Has(tu, c) THEN tu[c] ELSE <<>>

Push(tu, c, u) == Put(tu, c, IF recordFeed THEN Append(Feed(tu, c), u) ELSE Feed(tu, c))

areAllResultsAvailable(cs, jb, c) ==
  /\ c \in cs
  /\ Len(jb[c].workers) = jb[c].numWorkers
  /\ \A i \in 1..Len(jb[c].workers) :
       /\ Has(jb[c].results, jb[c].workers[i])
       /\ Has(jb[c].usage, jb[c].workers[i])

addProgressUpdate(tu, c, kind, w) == Push(tu, c, Update(kind, "progress", w))

addCompletionNotification(cs, tu, c) ==
  IF c \notin cs THEN tu
  ELSE Push(tu, c, Update("completed", "completed", NoWorker))

StartWith(feed, providers) ==
  /\ now = ClockStep
  /\ issued = {}
  /\ registered = providers
  /\ recordFeed = feed
  /\ reported = {}
  /\ taskQueue = <<>>
  /\ taskProgressQueue = <<>>
  /\ customers = {}
  /\ jobs = [c \in CustomerIds |-> NewJob(0)]
  /\ taskUpdates = EmptyMap
  /\ cancelMap = {}
  /\ calls = [w \in Workers |-> IdleCall]
  /\ sweep = IdleSweep
  /\ creating = {}
  /\ resp = NoResp

Start(feed) == StartWith(feed, Workers)

Init == Start(FALSE)

Tick(limit) ==
  /\ now < ClockStep * (limit + 1)
  /\ now' = now + ClockStep
  /\ resp' = NoResp
  /\ UNCHANGED <<scope, taskQueue, taskProgressQueue, customers, jobs,
                 taskUpdates, cancelMap, calls, sweep, creating>>

\* ------------------------------------------------------- /sendingpackage
\* Lines 580-622: the job is created and its units pushed before the await of
\* the files insert.  Without a non-empty dataset the chunks are
\* Array(numWorkers), which throws for numWorkers < 0 (caught: 500, nothing
\* created); splitDataset of a non-empty buffer returns [] instead.
\* generateUniqueCustomerId (lines 163-165) is taken to return an id it has
\* not returned before.
SendingPackage(c, respn, hasCode, hasDataset) ==
  LET n == ParseRespn(respn) IN
  /\ c \notin issued
  /\ IF ~hasCode
       THEN /\ resp' = Resp("sendingpackage", 0, NoWorker, "code-required", 0)
            /\ UNCHANGED <<issued, taskQueue, customers, jobs, taskUpdates, creating>>
     ELSE IF n < 0 /\ ~hasDataset
       THEN /\ resp' = Resp("sendingpackage", 0, NoWorker, "error", 0)
            /\ UNCHANGED <<issued, taskQueue, customers, jobs, taskUpdates, creating>>
     ELSE /\ issued' = issued \cup {c}
          /\ customers' = customers \cup {c}
          /\ jobs' = [jobs EXCEPT ![c] = NewJob(n)]
          /\ taskUpdates' = Put(taskUpdates, c, <<>>)
          /\ taskQueue' = taskQueue \o [i \in 1..Max(n, 0) |-> c]
          /\ creating' = creating \cup {c}
          /\ resp' = NoResp
  /\ UNCHANGED <<now, registered, recordFeed, reported, taskProgressQueue,
                 cancelMap, calls, sweep>>

\* Lines 643-653: after the files insert.
SendingPackageDone(c) ==
  /\ c \in creating
  /\ creating' = creating \ {c}
  /\ taskUpdates' = addProgressUpdate(taskUpdates, c, "queued", NoWorker)
  /\ resp' = Resp("sendingpackage", c, NoWorker, "queued", jobs[c].numWorkers)
  /\ UNCHANGED <<now, scope, taskQueue, taskProgressQueue, customers, jobs,
                 cancelMap, calls, sweep>>

\* --------------------------------------------------------------- /cancel
\* A cancel that leaves the heartbeat entries of the job in place.
Cancel_KeepsHeartbeats(c) ==
  /\ c \in issued
  /\ c \in customers => Len(Feed(taskUpdates, c)) < MaxFeed
  /\ cancelMap' = cancelMap \cup {c}
  /\ taskQueue' = Filter(taskQueue, c)
  /\ IF c \in customers
       THEN /\ jobs' = [jobs EXCEPT ![c].pendingWorkers = 0,
                                    ![c].isCancelled = TRUE]
            /\ taskUpdates' = addProgressUpdate(taskUpdates, c, "cancelled", NoWorker)
       ELSE UNCHANGED <<jobs, taskUpdates>>
  /\ resp' = Resp("cancel", c, NoWorker, "success", 0)
  /\ UNCHANGED <<now, scope, taskProgressQueue, customers, calls, sweep, creating>>

\* A cancel that purges the results of the job.
Cancel_PurgesResults(c) ==
  /\ c \in issued
  /\ c \in customers => Len(Feed(taskUpdates, c)) < MaxFeed
  /\ cancelMap' = cancelMap \cup {c}
  /\ taskQueue' = Filter(taskQueue, c)
  /\ IF c \in customers
       THEN /\ jobs' = [jobs EXCEPT ![c].pendingWorkers = 0,
                                    ![c].isCancelled = TRUE,
                                    ![c].results = EmptyMap,
                                    ![c].workerHeartbeats = EmptyMap]
            /\ taskUpdates' = addProgressUpdate(taskUpdates, c, "cancelled", NoWorker)
       ELSE UNCHANGED <<jobs, taskUpdates>>
  /\ resp' = Resp("cancel", c, NoWorker, "success", 0)
  /\ UNCHANGED <<now, scope, taskProgressQueue, customers, calls, sweep, creating>>

\* A cancel that empties the whole task queue.
Cancel_EmptiesQueue(c) ==
  /\ c \in issued
  /\ c \in customers => Len(Feed(taskUpdates, c)) < MaxFeed
  /\ cancelMap' = cancelMap \cup {c}
  /\ taskQueue' = <<>>
  /\ IF c \in customers
       THEN /\ jobs' = [jobs EXCEPT ![c].pendingWorkers = 0,
                                    ![c].isCancelled = TRUE,
                                    ![c].workerHeartbeats = EmptyMap]
            /\ taskUpdates' = addProgressUpdate(taskUpdates, c, "cancelled", NoWorker)
       ELSE UNCHANGED <<jobs, taskUpdates>>
  /\ resp' = Resp("cancel", c, NoWorker, "success", 0)
  /\ UNCHANGED <<now, scope, taskProgressQueue, customers, calls, sweep, creating>>

\* A cancel that takes the completion flag back.
Cancel_ClearsCompleted(c) ==
  /\ c \in issued
  /\ c \in customers => Len(Feed(taskUpdates, c)) < MaxFeed
  /\ cancelMap' = cancelMap \cup {c}
  /\ taskQueue' = Filter(taskQueue, c)
  /\ IF c \in customers
       THEN /\ jobs' = [jobs EXCEPT ![c].pendingWorkers = 0,
                                    ![c].isCancelled = TRUE,
                                    ![c].isCompleted = FALSE,
                                    ![c].workerHeartbeats = EmptyMap]
            /\ taskUpdates' = addProgressUpdate(taskUpdates, c, "cancelled", NoWorker)
       ELSE UNCHANGED <<jobs, taskUpdates>>
  /\ resp' = Resp("cancel", c, NoWorker, "success", 0)
  /\ UNCHANGED <<now, scope, taskProgressQueue, customers, calls, sweep, creating>>

\* Lines 534-560.  The client cancels a customerId the server has issued.
Cancel(c) ==
  /\ c \in issued
  /\ c \in customers => Len(Feed(taskUpdates, c)) < MaxFeed
  /\ cancelMap' = cancelMap \cup {c}
  /\ taskQueue' = Filter(taskQueue, c)
  /\ IF c \in customers
       THEN /\ jobs' = [jobs EXCEPT ![c].pendingWorkers = 0,
                                    ![c].isCancelled = TRUE,
                                    ![c].workerHeartbeats = EmptyMap]
            /\ taskUpdates' = addProgressUpdate(taskUpdates, c, "cancelled", NoWorker)
       ELSE UNCHANGED <<jobs, taskUpdates>>
  /\ resp' = Resp("cancel", c, NoWorker, "success", 0)
  /\ UNCHANGED <<now, scope, taskProgressQueue, customers, calls, sweep, creating>>

\* ------------------------------------------ DELETE /client/documents/:id
\* Lines 2277-2280, reached when the files row of the customer exists.
Delete(c) ==
  /\ c \in customers
  /\ c \notin creating
  /\ customers' = customers \ {c}
  /\ taskUpdates' = Del(taskUpdates, c)
  /\ cancelMap' = cancelMap \ {c}
  /\ jobs' = Collect(jobs, customers', calls, sweep)
  /\ resp' = Resp("delete", c, NoWorker, "success", 0)
  /\ UNCHANGED <<now, scope, taskQueue, taskProgressQueue, calls, sweep, creating>>

\* -------------------------------------------------------------- /gettask
GetTask(w) ==
  /\ calls[w].pc = "idle"
  /\ IF w \notin registered
       THEN /\ resp' = Resp("gettask", 0, w, "forbidden", 0)
            /\ UNCHANGED <<taskQueue, taskProgressQueue, jobs, calls>>
     ELSE IF taskQueue = <<>>
       THEN /\ resp' = Resp("gettask", 0, w, "no-work", 0)
            /\ UNCHANGED <<taskQueue, taskProgressQueue, jobs, calls>>
     ELSE LET c == Head(taskQueue) IN
       IF c \notin customers
         THEN \* unshift(task); the entry just pushed is filtered out again
              /\ taskQueue' = <<c>> \o Tail(taskQueue)
              /\ taskProgressQueue' =
                   SubSeq(Append(taskProgressQueue, c), 1, Len(taskProgressQueue))
              /\ resp' = Resp("gettask", c, w, "not-found", 0)
              /\ UNCHANGED <<jobs, calls>>
       ELSE IF c \in cancelMap
         THEN /\ taskQueue' = Tail(taskQueue)
              /\ taskProgressQueue' = Append(taskProgressQueue, c)
              /\ resp' = Resp("gettask", c, w, "cancelled", 0)
              /\ UNCHANGED <<jobs, calls>>
       ELSE /\ taskQueue' = Tail(taskQueue)
            /\ taskProgressQueue' = Append(taskProgressQueue, c)
            /\ jobs' = [jobs EXCEPT
                          ![c].workers = Append(@, w),
                          ![c].workerHeartbeats = Put(@, w, now),
                          ![c].workerIndex = Put(@, w, Len(jobs[c].workers))]
            /\ calls' = [calls EXCEPT ![w] =
                          [pc |-> "gettask", customerId |-> c, payload |-> NoFiles,
                           index |-> Len(jobs[c].workers)]]
            /\ resp' = NoResp
  /\ UNCHANGED <<now, scope, customers, taskUpdates, cancelMap, sweep, creating>>

\* Lines 1248-1275, after the worker-stat awaits.  getTaskProgress returns
\* null for a deleted job and progress.submitted then throws: no response.
GetTaskDone(w) ==
  LET c == calls[w].customerId IN
  /\ calls[w].pc = "gettask"
  /\ calls' = [calls EXCEPT ![w] = IdleCall]
  /\ IF c \in customers
       THEN /\ taskUpdates' = addProgressUpdate(taskUpdates, c, "assigned", w)
            /\ resp' = Resp("gettask", c, w, "task", calls[w].index)
       ELSE /\ resp' = Resp("gettask", c, w, "error", 0)
            /\ UNCHANGED taskUpdates
  /\ UNCHANGED <<now, scope, taskQueue, taskProgressQueue, customers, jobs,
                 cancelMap, sweep, creating>>

\* ------------------------------------------------------------ /heartbeat

\* A heartbeat that does not look at cancelMap.
Heartbeat_IgnoresCancel(w, c) ==
  /\ IF w \notin registered
       THEN /\ resp' = Resp("heartbeat", c, w, "forbidden", FALSE)
            /\ UNCHANGED jobs
     ELSE IF c = IdleMarker
       THEN /\ resp' = Resp("heartbeat", c, w, "idle", TRUE)
            /\ UNCHANGED jobs
     ELSE IF c \notin customers \/ w \notin Range(jobs[c].workers)
       THEN /\ resp' = Resp("heartbeat", c, w, "not-assigned", FALSE)
            /\ UNCHANGED jobs
     ELSE /\ jobs' = [jobs EXCEPT ![c].workerHeartbeats = Put(@, w, now)]
          /\ resp' = Resp("heartbeat", c, w, "active", TRUE)
  /\ UNCHANGED <<now, scope, taskQueue, taskProgressQueue, customers,
                 taskUpdates, cancelMap, calls, sweep, creating>>

\* Lines 1709-1737.  The info of the response is its ok field; the 403 of an
\* unregistered worker has none.
Heartbeat(w, c) ==
  /\ IF w \notin registered
       THEN /\ resp' = Resp("heartbeat", c, w, "forbidden", FALSE)
            /\ UNCHANGED jobs
     ELSE IF c = IdleMarker
       THEN /\ resp' = Resp("heartbeat", c, w, "idle", TRUE)
            /\ UNCHANGED jobs
     ELSE IF c \notin customers \/ w \notin Range(jobs[c].workers)
       THEN /\ resp' = Resp("heartbeat", c, w, "not-assigned", FALSE)
            /\ UNCHANGED jobs
     ELSE IF c \in cancelMap
       THEN /\ resp' = Resp("heartbeat", c, w, "cancelled", FALSE)
            /\ UNCHANGED jobs
     ELSE /\ jobs' = [jobs EXCEPT ![c].workerHeartbeats = Put(@, w, now)]
          /\ resp' = Resp("heartbeat", c, w, "active", TRUE)
  /\ UNCHANGED <<now, scope, taskQueue, taskProgressQueue, customers,
                 taskUpdates, cancelMap, calls, sweep, creating>>

\* ---------------------------------------------------------- /uploadresult

\* A submit that does not look for an earlier result of the worker.
SubmitCheck_NoDuplicate(w, c, p) ==
  IF w \notin registered THEN "forbidden"
  ELSE IF p = NoFiles THEN "missing-files"
  ELSE IF c \notin customers THEN "not-found"
  ELSE IF w \notin Range(jobs[c].workers) THEN "unauthorized"
  ELSE IF c \in cancelMap THEN "cancelled"
  ELSE "ok"

\* Lines 1303-1343: the first check that fails answers the request.
SubmitCheck(w, c, p) ==
  IF w \notin registered THEN "forbidden"
  ELSE IF p = NoFiles THEN "missing-files"
  ELSE IF c \notin customers THEN "not-found"
  ELSE IF w \notin Range(jobs[c].workers) THEN "unauthorized"
  ELSE IF c \in cancelMap THEN "cancelled"
  ELSE IF Has(jobs[c].results, w) THEN "duplicate"
  ELSE "ok"

\* A submit that stores the result before it looks for an earlier one.
UploadResult_StoresFirst(w, c, p) ==
  /\ calls[w].pc = "idle"
  /\ IF SubmitCheck(w, c, p) = "duplicate"
       THEN /\ resp' = Resp("uploadresult", c, w, "duplicate", 0)
            /\ jobs' = [jobs EXCEPT ![c].results = Put(@, w, p.result),
                                    ![c].usage = Put(@, w, p.usage)]
            /\ UNCHANGED calls
     ELSE IF SubmitCheck(w, c, p) # "ok"
       THEN /\ resp' = Resp("uploadresult", c, w, SubmitCheck(w, c, p), 0)
            /\ UNCHANGED <<jobs, calls>>
     ELSE /\ jobs' = [jobs EXCEPT ![c].results = Put(@, w, p.result),
                                  ![c].usage = Put(@, w, p.usage)]
          /\ calls' = [calls EXCEPT ![w] =
                        [pc |-> "stored", customerId |-> c, payload |-> p, index |-> 0]]
          /\ resp' = NoResp
  /\ UNCHANGED <<now, scope, taskQueue, taskProgressQueue, customers,
                 taskUpdates, cancelMap, sweep, creating>>

\* Lines 1295-1351: the checks, then results and usage are stored and the
\* handler awaits storeWorkerUsage.
UploadResult(w, c, p) ==
  /\ calls[w].pc = "idle"
  /\ IF SubmitCheck(w, c, p) # "ok"
       THEN /\ resp' = Resp("uploadresult", c, w, SubmitCheck(w, c, p), 0)
            /\ UNCHANGED <<jobs, calls>>
     ELSE /\ jobs' = [jobs EXCEPT ![c].results = Put(@, w, p.result),
                                  ![c].usage = Put(@, w, p.usage)]
          /\ calls' = [calls EXCEPT ![w] =
                        [pc |-> "stored", customerId |-> c, payload |-> p, index |-> 0]]
          /\ resp' = NoResp
  /\ UNCHANGED <<now, scope, taskQueue, taskProgressQueue, customers,
                 taskUpdates, cancelMap, sweep, creating>>

\* Lines 1353-1382: after storeWorkerUsage, up to the worker-stat awaits.
UploadResultStored(w) ==
  LET c == calls[w].customerId
      p == calls[w].payload
      pending == Max(jobs[c].pendingWorkers - 1, 0)
  IN
  /\ calls[w].pc = "stored"
  /\ jobs' = [jobs EXCEPT
                ![c].outputFiles = IF p.outputs # {} THEN Put(@, w, p.outputs) ELSE @,
                ![c].pendingWorkers = pending,
                ![c].workerHeartbeats = Del(@, w)]
  /\ taskProgressQueue' =
       IF pending = 0 THEN Filter(taskProgressQueue, c) ELSE taskProgressQueue
  /\ calls' = [calls EXCEPT ![w].pc = "counted"]
  /\ resp' = NoResp
  /\ UNCHANGED <<now, scope, taskQueue, customers, taskUpdates, cancelMap,
                 sweep, creating>>

\* Lines 1384-1423: after the worker-stat awaits.  For a deleted job
\* getTaskProgress returns null, the update is still pushed, and building the
\* response throws (progress.percentage): the catch answers 500.
UploadResultDone(w) ==
  LET c == calls[w].customerId
      tu1 == addProgressUpdate(taskUpdates, c, "result", w)
      all == areAllResultsAvailable(customers, jobs, c) /\ ~jobs[c].isCompleted
      jb == IF all THEN [jobs EXCEPT ![c].isCompleted = TRUE,
                                     ![c].completionNotified = TRUE]
            ELSE jobs
  IN
  /\ calls[w].pc = "counted"
  /\ calls' = [calls EXCEPT ![w] = IdleCall]
  /\ taskUpdates' = IF all THEN addCompletionNotification(customers, tu1, c) ELSE tu1
  /\ jobs' = Collect(jb, customers, calls', sweep)
  /\ resp' = IF c \in customers
               THEN Resp("uploadresult", c, w, "success", 0)
               ELSE Resp("uploadresult", c, w, "error", 0)
  /\ UNCHANGED <<now, scope, taskQueue, taskProgressQueue, customers, cancelMap,
                 sweep, creating>>

\* ------------------------------------------------- /getresults/:customerId

\* A download that announces the completion whenever it is served.
GetResults_AlwaysNotifies(c) ==
  /\ IF c \notin customers
       THEN /\ resp' = Resp("getresults", c, NoWorker, "not-found", 0)
            /\ UNCHANGED <<jobs, taskUpdates>>
     ELSE IF c \in cancelMap
       THEN /\ resp' = Resp("getresults", c, NoWorker, "cancelled", 0)
            /\ UNCHANGED <<jobs, taskUpdates>>
     ELSE IF ~areAllResultsAvailable(customers, jobs, c)
       THEN /\ resp' = Resp("getresults", c, NoWorker, "not-ready", 0)
            /\ UNCHANGED <<jobs, taskUpdates>>
     ELSE /\ jobs' = [jobs EXCEPT ![c].isCompleted = TRUE,
                                  ![c].completionNotified = TRUE]
          /\ taskUpdates' = addCompletionNotification(customers, taskUpdates, c)
          /\ resp' = Resp("getresults", c, NoWorker, "archive", 0)
  /\ UNCHANGED <<now, scope, taskQueue, taskProgressQueue, customers, cancelMap,
                 calls, sweep, creating>>

\* Lines 955-992: "archive" is the response that streams the ZIP.
GetResults(c) ==
  /\ IF c \notin customers
       THEN /\ resp' = Resp("getresults", c, NoWorker, "not-found", 0)
            /\ UNCHANGED <<jobs, taskUpdates>>
     ELSE IF c \in cancelMap
       THEN /\ resp' = Resp("getresults", c, NoWorker, "cancelled", 0)
            /\ UNCHANGED <<jobs, taskUpdates>>
     ELSE IF ~areAllResultsAvailable(customers, jobs, c)
       THEN /\ resp' = Resp("getresults", c, NoWorker, "not-ready", 0)
            /\ UNCHANGED <<jobs, taskUpdates>>
     ELSE /\ jobs' = IF jobs[c].isCompleted THEN jobs
                     ELSE [jobs EXCEPT ![c].isCompleted = TRUE,
                                       ![c].completionNotified = TRUE]
          /\ taskUpdates' =
               IF ~jobs[c].isCompleted /\ ~jobs[c].completionNotified
                 THEN addCompletionNotification(customers, taskUpdates, c)
                 ELSE taskUpdates
          /\ resp' = Resp("getresults", c, NoWorker, "archive", 0)
  /\ UNCHANGED <<now, scope, taskQueue, taskProgressQueue, customers, cancelMap,
                 calls, sweep, creating>>

\* ------------------------------------------------------------- /getUpdate
\* update.timestamp is new Date().toISOString(), a string; compared with the
\* number Date.now() - 60000 it is converted to NaN, and NaN > n is false.
IsoStringGreaterThan(ts, n) == FALSE

\* A drain that keeps nothing.
Retained_Nothing(updates) == SelectSeq(updates, LAMBDA u : FALSE)

\* Lines 1127-1129.
Retained(updates) ==
  SelectSeq(updates, LAMBDA u :
    u.status = "completed" \/ IsoStringGreaterThan(u.timestamp, now - 60000))

GetUpdate(c) ==
  LET updates == Feed(taskUpdates, c)
      tu1 == Put(taskUpdates, c, Retained(updates))
      renotify == jobs[c].isCompleted
                    /\ \A i \in 1..Len(updates) : updates[i].status # "completed"
      tu2 == addCompletionNotification(customers, tu1, c)
  IN
  /\ IF c \notin customers
       THEN /\ resp' = Resp("getUpdate", c, NoWorker, "not-found", <<>>)
            /\ UNCHANGED taskUpdates
     ELSE IF renotify
       THEN /\ taskUpdates' = Put(tu2, c, Retained(tu2[c]))
            /\ resp' = Resp("getUpdate", c, NoWorker, "completed", tu2[c])
     ELSE /\ taskUpdates' = tu1
          /\ resp' = Resp("getUpdate", c, NoWorker,
                          IF areAllResultsAvailable(customers, jobs, c)
                            THEN "completed" ELSE "pending",
                          updates)
  /\ UNCHANGED <<now, scope, taskQueue, taskProgressQueue, customers, jobs,
                 cancelMap, calls, sweep, creating>>

\* ------------------------------------------------------- heartbeat monitor
\* Lines 2524-2578.  One pass runs from its start, or from the end of an
\* eviction's awaits, to the next eviction's awaits or to its end.  An entry
\* of taskProgressQueue carries nothing but customerId and taskId, so
\* filter(t => t !== task) is the removal of one entry of that customer.
RECURSIVE SweepTasks(_, _, _, _, _)
RECURSIVE SweepWorkers(_, _, _, _, _, _, _)
SweepTasks(tq, tpq, jb, tasks, t) ==
  IF tasks = <<>>
    THEN [taskQueue |-> tq, taskProgressQueue |-> tpq, jobs |-> jb,
          sweep |-> IdleSweep]
  ELSE LET c == Head(tasks) IN
    IF c \notin customers \/ jb[c].isCompleted \/ c \in cancelMap
      THEN SweepTasks(tq, RemoveOne(tpq, c), jb, Tail(tasks), t)
    ELSE SweepWorkers(tq, tpq, jb, Tail(tasks), t, c, jb[c].workers)

\* An eviction that leaves the usage of the worker in place.
Evict_KeepsUsage(job, w) ==
  [job EXCEPT !.workers = Filter(@, w),
              !.workerHeartbeats = Del(@, w),
              !.workerIndex = Del(@, w),
              !.results = Del(@, w),
              !.outputFiles = Del(@, w)]

\* Lines 2549-2558.
Evict(job, w) ==
  [job EXCEPT !.workers = Filter(@, w),
              !.workerHeartbeats = Del(@, w),
              !.workerIndex = Del(@, w),
              !.results = Del(@, w),
              !.usage = Del(@, w),
              !.outputFiles = Del(@, w)]

SweepWorkers(tq, tpq, jb, tasks, t, c, ws) ==
  IF ws = <<>> THEN SweepTasks(tq, tpq, jb, tasks, t)
  ELSE LET w == Head(ws) IN
    IF ~Has(jb[c].workerHeartbeats, w)
      THEN SweepWorkers(tq, tpq, jb, tasks, t, c, Tail(ws))
    ELSE IF t - jb[c].workerHeartbeats[w] > HEARTBEAT_TIMEOUT
      THEN [taskQueue |-> Append(tq, c),
            taskProgressQueue |-> tpq,
            jobs |-> [jb EXCEPT ![c] = Evict(@, w)],
            sweep |-> [pc |-> "evicting", now |-> t, tasks |-> tasks, cur |-> c,
                       ws |-> Tail(ws), evicted |-> w]]
    ELSE SweepWorkers(tq, tpq, jb, tasks, t, c, Tail(ws))

SweepApply(r) ==
  /\ taskQueue' = r.taskQueue
  /\ taskProgressQueue' = r.taskProgressQueue
  /\ sweep' = r.sweep
  /\ jobs' = Collect(r.jobs, customers, calls, r.sweep)

\* The timer fires; a pass is not started while another one is suspended.
SweepStart ==
  /\ sweep.pc = "idle"
  /\ SweepApply(SweepTasks(taskQueue, taskProgressQueue, jobs, taskProgressQueue, now))
  /\ resp' = IF sweep'.pc = "idle" THEN Resp("sweep", 0, NoWorker, "done", now)
             ELSE NoResp
  /\ UNCHANGED <<now, scope, customers, taskUpdates, cancelMap, calls, creating>>

\* Lines 2568-2576: after the worker-stat awaits of an eviction.
SweepResume ==
  /\ sweep.pc = "evicting"
  /\ taskUpdates' = addProgressUpdate(taskUpdates, sweep.cur, "timeout", sweep.evicted)
  /\ SweepApply(SweepWorkers(taskQueue, taskProgressQueue, jobs, sweep.tasks,
                             sweep.now, sweep.cur, sweep.ws))
  /\ resp' = IF sweep'.pc = "idle" THEN Resp("sweep", 0, NoWorker, "done", sweep.now)
             ELSE NoResp
  /\ UNCHANGED <<now, scope, customers, cancelMap, calls, creating>>

\* --------------------------------------------------------- specifications
WithOutputs == [result |-> "r2", usage |-> "u2", outputs |-> {"f"}]

\* Spec: one job, every handler of the engine, the feed's entries not kept;
\* every submit carries its files.
Next ==
  \/ Tick(MaxClock)
  \/ \E r \in RespnInputs, hc \in BOOLEAN, hd \in BOOLEAN : SendingPackage(1, r, hc, hd)
  \/ SendingPackageDone(1)
  \/ Cancel(1)
  \/ Delete(1)
  \/ \E w \in Workers : GetTask(w)
  \/ \E w \in Workers : GetTaskDone(w)
  \/ \E w \in Workers : Heartbeat(w, 1)
  \/ \E w \in Workers : UploadResult(w, 1, WithOutputs)
  \/ \E w \in Workers : UploadResultStored(w)
  \/ \E w \in Workers : UploadResultDone(w)
  \/ GetResults(1)
  \/ SweepStart
  \/ SweepResume

Spec == Init /\ [][Next]_vars

\* SpecStall: one job of two units, workers that claim, beat, submit and
\* stall, and the monitor; the clock advances twice.
NextStall ==
  \/ Tick(MaxStallClock)
  \/ SendingPackage(1, 2, TRUE, FALSE)
  \/ SendingPackageDone(1)
  \/ \E w \in Workers : GetTask(w)
  \/ \E w \in Workers : GetTaskDone(w)
  \/ \E w \in Workers : Heartbeat(w, 1)
  \/ \E w \in Workers : UploadResult(w, 1, WithOutputs)
  \/ \E w \in Workers : UploadResultStored(w)
  \/ \E w \in Workers : UploadResultDone(w)
  \/ SweepStart
  \/ SweepResume

SpecStall == Init /\ [][NextStall]_vars

\* SpecSubmit: one job, submissions with different bytes, cancellation,
\* deletion, download and polling, with the feed's entries kept; the clock
\* stands still, so the monitor evicts nobody and is left out.
InitSubmit == Start(TRUE)

NextSubmit ==
  \/ \E r \in {1, 2} : SendingPackage(1, r, TRUE, FALSE)
  \/ SendingPackageDone(1)
  \/ Cancel(1)
  \/ Delete(1)
  \/ \E w \in Workers : GetTask(w)
  \/ \E w \in Workers : GetTaskDone(w)
  \/ \E w \in Workers : Heartbeat(w, 1)
  \/ \E w \in Workers, p \in Payloads \cup {NoFiles} : UploadResult(w, 1, p)
  \/ \E w \in Workers : UploadResultStored(w)
  \/ \E w \in Workers : UploadResultDone(w)
  \/ GetResults(1)
  \/ GetUpdate(1)

SpecSubmit == InitSubmit /\ [][NextSubmit]_vars

\* SpecBeat: one job, one registered and one unregistered worker, and
\* heartbeats that name the job, no job, or a job that was never created.
BeatIds == {IdleMarker} \cup CustomerIds

InitBeat == StartWith(FALSE, {"w1"})

NextBeat ==
  \/ Tick(MaxClock)
  \/ \E r \in {1, 2} : SendingPackage(1, r, TRUE, FALSE)
  \/ SendingPackageDone(1)
  \/ Cancel(1)
  \/ Delete(1)
  \/ \E w \in Workers : GetTask(w)
  \/ \E w \in Workers : GetTaskDone(w)
  \/ \E w \in Workers, c \in BeatIds : Heartbeat(w, c)
  \/ \E w \in Workers : UploadResult(w, 1, WithOutputs)
  \/ \E w \in Workers : UploadResultStored(w)
  \/ \E w \in Workers : UploadResultDone(w)

SpecBeat == InitBeat /\ [][NextBeat]_vars

\* ------------------------------------------------------------------ claims
Assigned(c) == Range(jobs[c].workers)
Beating(c) == DOMAIN jobs[c].workerHeartbeats
Submitted(c) == DOMAIN jobs[c].results
Queued(c) == Count(taskQueue, c)
Quiescent ==
  /\ \A w \in Workers : calls[w].pc = "idle"
  /\ sweep.pc = "idle"
  /\ creating = {}

\* C1: for every job, a worker with a heartbeat entry is assigned and has no
\* entry in results.  Stated here for the workers none of whose requests is
\* suspended, which the claim includes.
C1_HeartbeatMeansAssignedAndNotSubmitted ==
  \A c \in customers : \A w \in Beating(c) :
    calls[w].pc = "idle" => w \in Assigned(c) /\ w \notin Submitted(c)

\* C2: no job is both completed and cancelled.
C2_CompletedExcludesCancelled ==
  \A c \in customers : ~(jobs[c].isCompleted /\ jobs[c].isCancelled)

\* C3: a completed job has numWorkers assigned workers and numWorkers results.
C3_CompletedMeansAllResults ==
  \A c \in customers :
    jobs[c].isCompleted =>
      /\ Len(jobs[c].workers) = jobs[c].numWorkers
      /\ Cardinality(Submitted(c)) = jobs[c].numWorkers

\* C4: when no handler is suspended, the queued units of an existing job
\* that is not cancelled, its workers that beat and have not submitted, and
\* its results add up to numWorkers.  Stated here for the jobs of at least
\* one unit, which the claim includes.
C4_UnitsConserved ==
  \A c \in customers :
    (Quiescent /\ c \notin cancelMap /\ jobs[c].numWorkers >= 1) =>
      Queued(c) + Cardinality(Beating(c) \ Submitted(c)) + Cardinality(Submitted(c))
        = jobs[c].numWorkers

\* C5: a job never has more assigned workers than numWorkers.
C5_AssignedAtMostNumWorkers ==
  \A c \in customers : Len(jobs[c].workers) <= jobs[c].numWorkers

\* What holds instead of C5: the bound holds for every job whose numWorkers
\* is not negative.
AssignedAtMostNumWorkersIfCounted ==
  \A c \in customers :
    jobs[c].numWorkers >= 0 => Len(jobs[c].workers) + Queued(c) <= jobs[c].numWorkers

\* C6: a submit by a worker that already has an entry in results is answered
\* "duplicate" and leaves the job and the progress feed as they were.
C6_ResubmitIsDuplicate ==
  [][\A w \in Workers :
       (/\ 1 \in customers
        /\ Has(jobs[1].results, w)
        /\ \E p \in Payloads : UploadResult(w, 1, p))
       => /\ resp'.status = "duplicate"
          /\ jobs' = jobs
          /\ taskUpdates' = taskUpdates]_vars

\* C6, amended: such a submit, sent with its files by a registered worker,
\* is rejected, as "cancelled" when the job is cancelled and as "duplicate"
\* otherwise, and leaves results, usage, outputFiles, pendingWorkers,
\* heartbeats and the progress feed unchanged.
C6_ResubmitIsRejected ==
  [][\A w \in Workers :
       (/\ 1 \in customers
        /\ Has(jobs[1].results, w)
        /\ \E p \in Payloads : UploadResult(w, 1, p))
       => /\ resp'.status = (IF 1 \in cancelMap THEN "cancelled" ELSE "duplicate")
          /\ jobs' = jobs
          /\ taskUpdates' = taskUpdates]_vars

C6_Witness ==
  /\ resp.op = "uploadresult"
  /\ resp.status = "duplicate"
  /\ resp.customerId \in customers
  /\ Has(jobs[resp.customerId].results, resp.workerId)

\* C7: when a pass of the heartbeat monitor ends, no assigned worker of an
\* existing job that is neither completed nor cancelled still has the
\* heartbeat entry that was older than HEARTBEAT_TIMEOUT when the pass began.
\* Stated here for the workers that hold a unit, that is, have no result
\* stored, and while no submit to the job is suspended.
C7_StaleWorkerEvictedByPass ==
  resp.op = "sweep" =>
    \A c \in customers :
      (/\ ~jobs[c].isCompleted /\ ~jobs[c].isCancelled /\ c \notin cancelMap
       /\ \A v \in Workers : calls[v].pc = "idle") =>
        \A w \in (Beating(c) \cap Assigned(c)) \ Submitted(c) :
          resp.info - jobs[c].workerHeartbeats[w] <= HEARTBEAT_TIMEOUT

\* C8: while a job that was cancelled exists, the task queue holds no unit
\* of it.  The cancel is one of a customerId the server has issued.
C8_CancelDrainsQueue ==
  \A c \in customers \cap cancelMap : Queued(c) = 0

\* C8's case: the cancel ran while a pass of the monitor that had already
\* re-enqueued a unit of the job was suspended on its audit write.
C8_Witness ==
  /\ sweep.pc = "evicting"
  /\ sweep.cur \in customers \cap cancelMap
  /\ resp.op = "cancel"

\* C9: a request for the results that is answered with the archive is served
\* in a state where the job is completed, not cancelled, and results holds
\* numWorkers entries.
C9_ArchiveOnlyWhenComplete ==
  (resp.op = "getresults" /\ resp.status = "archive") =>
    /\ resp.customerId \in customers
    /\ jobs[resp.customerId].isCompleted
    /\ ~jobs[resp.customerId].isCancelled
    /\ resp.customerId \notin cancelMap
    /\ Cardinality(Submitted(resp.customerId)) = jobs[resp.customerId].numWorkers

\* C10: once a job is cancelled, results, usage and outputFiles do not
\* change, heartbeats is empty and workers gains no member.
C10_CancelledJobIsFrozen ==
  [][\A c \in customers \cap cancelMap :
       c \in customers' =>
         /\ jobs'[c].results = jobs[c].results
         /\ jobs'[c].usage = jobs[c].usage
         /\ jobs'[c].outputFiles = jobs[c].outputFiles
         /\ jobs'[c].workerHeartbeats = EmptyMap
         /\ Range(jobs'[c].workers) \subseteq Range(jobs[c].workers)]_vars

\* C11: a claim that finds at the head of the queue a unit of a job that no
\* longer exists discards the unit and answers no-work; the queue is one
\* shorter.
C11_StaleUnitDiscarded ==
  [][\A w \in Workers :
       (/\ w \in registered
        /\ taskQueue # <<>>
        /\ Head(taskQueue) \notin customers
        /\ GetTask(w))
       => /\ Len(taskQueue') = Len(taskQueue) - 1
          /\ resp'.status = "no-work"]_vars

\* C12: while a job exists, its isCompleted flag, its isCancelled flag and
\* its cancelMap entry stay true once they are true.
C12_FlagsStay ==
  [][\A c \in customers \cap customers' :
       /\ jobs[c].isCompleted => jobs'[c].isCompleted
       /\ jobs[c].isCancelled => jobs'[c].isCancelled
       /\ c \in cancelMap => c \in cancelMap']_vars

\* C12's case: the job was completed, then cancelled, and the monitor has
\* made a pass since.
C12_Witness ==
  /\ 1 \in customers
  /\ jobs[1].isCompleted
  /\ jobs[1].isCancelled
  /\ resp.op = "sweep"

\* C14: a submit against a cancelled job by a worker that is not assigned to
\* it is rejected as cancelled.
C14_CancelledBeforeUnauthorized ==
  [][\A w \in Workers :
       (/\ 1 \in customers
        /\ 1 \in cancelMap
        /\ w \notin Assigned(1)
        /\ \E p \in Payloads : UploadResult(w, 1, p))
       => resp'.status = "cancelled"]_vars

\* C15: in every job, results and usage have the same keys, and every key of
\* results is an assigned worker.
C15_ResultsUsageAssigned ==
  \A c \in customers :
    /\ DOMAIN jobs[c].results = DOMAIN jobs[c].usage
    /\ DOMAIN jobs[c].results \subseteq Assigned(c)

\* C15's case: the monitor has evicted a worker whose submit is suspended
\* after storing its result; the result and the usage are gone with the
\* assignment.
C15_Witness ==
  /\ sweep.pc = "evicting"
  /\ sweep.cur \in customers
  /\ calls[sweep.evicted].pc = "stored"
  /\ calls[sweep.evicted].customerId = sweep.cur
  /\ sweep.evicted \notin Submitted(sweep.cur)
  /\ sweep.evicted \notin Assigned(sweep.cur)

\* C16: no worker occurs more than once in a job's workers.
C16_NoWorkerTwice ==
  \A c \in customers :
    \A i, j \in 1..Len(jobs[c].workers) :
      jobs[c].workers[i] = jobs[c].workers[j] => i = j

\* C13: a heartbeat answers ok=false and changes nothing when the job does
\* not exist, is cancelled, or the worker is not assigned to it; in every
\* other case it sets the worker's heartbeat to the current time and answers
\* ok=true.
C13_HeartbeatContract ==
  [][\A w \in Workers, c \in BeatIds :
       Heartbeat(w, c) =>
         IF c \notin customers \/ c \in cancelMap \/ w \notin Assigned(c)
           THEN resp'.info = FALSE /\ jobs' = jobs
           ELSE /\ resp'.info = TRUE
                /\ jobs' = [jobs EXCEPT ![c].workerHeartbeats = Put(@, w, now)]]_vars

\* C13, amended: a heartbeat of an unregistered worker is refused and one
\* that names no job ("idle" or no customerId) is answered ok=true, both
\* without a change; a heartbeat of a registered worker that names a job
\* follows the contract of C13.
C13_HeartbeatContractOfJobs ==
  [][\A w \in Workers, c \in BeatIds :
       Heartbeat(w, c) =>
         IF w \notin registered
           THEN resp'.status = "forbidden" /\ jobs' = jobs
         ELSE IF c = IdleMarker
           THEN resp'.info = TRUE /\ jobs' = jobs
         ELSE IF c \notin customers \/ c \in cancelMap \/ w \notin Assigned(c)
           THEN resp'.info = FALSE /\ jobs' = jobs
         ELSE /\ resp'.info = TRUE
              /\ jobs' = [jobs EXCEPT ![c].workerHeartbeats = Put(@, w, now)]]_vars

\* C13's case: an assigned worker's heartbeat for a cancelled job was
\* answered ok=false.
C13_Witness ==
  /\ resp.op = "heartbeat"
  /\ resp.status = "cancelled"
  /\ resp.info = FALSE
  /\ resp.customerId \in customers \cap cancelMap
  /\ resp.workerId \in Assigned(resp.customerId)

\* C17: the shard indices handed out to the workers that are assigned to a
\* job are pairwise distinct.
C17_ShardIndicesDistinct ==
  \A c \in customers :
    \A v, w \in Assigned(c) :
      v # w => jobs[c].workerIndex[v] # jobs[c].workerIndex[w]

\* C18: a claim that finds the queue non-empty takes the unit at its head.
C18_ClaimTakesHead ==
  [][\A w \in Workers :
       (w \in registered /\ taskQueue # <<>> /\ GetTask(w))
       => taskQueue' = Tail(taskQueue)]_vars

\* What holds instead of C18: a claim takes the head when the head is a unit
\* of an existing job, and the job it assigns is the one of that unit.
ClaimTakesHeadOfExistingJob ==
  [][\A w \in Workers :
       (/\ w \in registered
        /\ taskQueue # <<>>
        /\ Head(taskQueue) \in customers
        /\ GetTask(w))
       => /\ taskQueue' = Tail(taskQueue)
          /\ calls'[w].pc = "gettask" => calls'[w].customerId = Head(taskQueue)]_vars

CompletedCount(updates) ==
  Cardinality({i \in 1..Len(updates) : updates[i].status = "completed"})

\* C19: a job's isCompleted flag is true exactly when completionNotified is
\* true and exactly when its feed holds a completed update, and no feed ever
\* holds more than one completed update.
C19_CompletionAnnouncedOnce ==
  /\ \A c \in customers :
       /\ jobs[c].isCompleted <=> jobs[c].completionNotified
       /\ jobs[c].isCompleted <=> CompletedCount(Feed(taskUpdates, c)) = 1
  /\ \A c \in CustomerIds : CompletedCount(Feed(taskUpdates, c)) <= 1

\* C19's case: the completion was announced, the results were downloaded and
\* the updates were polled.
C19_Witness ==
  /\ resp.op = "getUpdate"
  /\ resp.status = "completed"
  /\ 1 \in customers
  /\ jobs[1].isCompleted
  /\ CompletedCount(resp.info) = 1
  /\ Len(resp.info) = 1

\* C20: while a worker's result is stored and its heartbeat entry is not yet
\* removed, nothing but the rest of that submit changes the job.
C20_SubmitIsOneTransition ==
  [][\A w \in Workers :
       LET c == calls[w].customerId IN
       (/\ calls[w].pc = "stored"
        /\ c \in customers
        /\ w \in Submitted(c)
        /\ w \in Beating(c)
        /\ jobs'[c] # jobs[c])
       => UploadResultStored(w)]_vars

\* C21: a poll of the updates returns the whole buffer and keeps the entries
\* whose status is completed or whose age is below 60 seconds.
C21_DrainKeepsRecent ==
  [][(1 \in customers /\ GetUpdate(1)) =>
       \A i \in 1..Len(Feed(taskUpdates, 1)) :
         LET u == Feed(taskUpdates, 1)[i] IN
         /\ u \in Range(resp'.info)
         /\ (u.status = "completed" \/ now - u.timestamp < 60000)
              => u \in Range(Feed(taskUpdates', 1))]_vars

\* C22: while a job exists, a completion update stays in its feed once it is
\* there, and every poll of the updates returns one.
C22_CompletionSticky ==
  [][\A c \in customers \cap customers' :
       CompletedCount(Feed(taskUpdates, c)) >= 1 =>
         /\ CompletedCount(Feed(taskUpdates', c)) >= 1
         /\ GetUpdate(c) => CompletedCount(resp'.info) >= 1]_vars

\* C22's case: a poll found nothing but the completion update in the buffer,
\* earlier polls having drained the rest, and returned it.
C22_Witness ==
  /\ resp.op = "getUpdate"
  /\ resp.customerId \in customers
  /\ resp.info = Feed(taskUpdates, resp.customerId)
  /\ CompletedCount(resp.info) = 1

\* C23: a job submission whose worker count is not a positive integer creates
\* no job, enqueues no unit and creates no progress feed.  A respn that is
\* not a number is parsed like 0.
C23_NonPositiveCountRejected ==
  [][\A r \in RespnInputs, hc \in BOOLEAN, hd \in BOOLEAN :
       (r < 1 /\ SendingPackage(1, r, hc, hd))
       => /\ customers' = customers
          /\ taskQueue' = taskQueue
          /\ taskUpdates' = taskUpdates]_vars

\* C24: cancel of an existing job sets pendingWorkers to 0, sets the
\* cancellation flags and empties the heartbeats, and leaves results, usage,
\* outputFiles, workers and numWorkers as they were.
C24_CancelKeepsSubmittedWork ==
  [][(1 \in customers /\ Cancel(1)) =>
       /\ jobs'[1].pendingWorkers = 0
       /\ jobs'[1].isCancelled
       /\ 1 \in cancelMap'
       /\ jobs'[1].workerHeartbeats = EmptyMap
       /\ jobs'[1].results = jobs[1].results
       /\ jobs'[1].usage = jobs[1].usage
       /\ jobs'[1].outputFiles = jobs[1].outputFiles
       /\ jobs'[1].workers = jobs[1].workers
       /\ jobs'[1].numWorkers = jobs[1].numWorkers]_vars

\* C24's case: a job with a stored result and a beating worker was cancelled.
C24_Witness ==
  /\ resp.op = "cancel"
  /\ 1 \in customers
  /\ Submitted(1) # {}
  /\ jobs[1].outputFiles # EmptyMap
  /\ Assigned(1) \ Submitted(1) # {}
  /\ jobs[1].pendingWorkers = 0

RejectedSubmit ==
  {"not-found", "cancelled", "unauthorized", "duplicate", "missing-files"}

\* C28: a submit that is rejected leaves the jobs, the task queue, the
\* cancellation flags and the progress feed as they were.
C28_RejectedSubmitChangesNothing ==
  [][(resp'.op = "uploadresult" /\ resp'.status \in RejectedSubmit) =>
       /\ jobs' = jobs
       /\ taskQueue' = taskQueue
       /\ taskProgressQueue' = taskProgressQueue
       /\ cancelMap' = cancelMap
       /\ customers' = customers
       /\ taskUpdates' = taskUpdates]_vars

\* C28's case: an assigned worker that has stored a result submits other
\* bytes and is rejected.
C28_Witness ==
  /\ resp.op = "uploadresult"
  /\ resp.status = "duplicate"
  /\ resp.customerId \in customers
  /\ jobs[resp.customerId].results[resp.workerId] = "r1"
  /\ Cardinality(Submitted(resp.customerId)) = 2

\* C29: cancelling an existing job appends to its feed one update, whose
\* status is cancelled.
C29_CancelledUpdate ==
  [][(1 \in customers /\ Cancel(1)) =>
       /\ Len(Feed(taskUpdates', 1)) = Len(Feed(taskUpdates, 1)) + 1
       /\ SubSeq(Feed(taskUpdates', 1), 1, Len(Feed(taskUpdates, 1))) = Feed(taskUpdates, 1)
       /\ Feed(taskUpdates', 1)[Len(Feed(taskUpdates', 1))].status = "cancelled"]_vars

\* ---------------------------------------------------------------------------
\* Dataset splitting (splitDataset, lines 171-182).
\* ---------------------------------------------------------------------------

MaxLen == 4         \* longest dataset, in bytes
MaxParts == 4       \* largest shard count

ByteValues == {0, 1}

\* The datasets: the byte strings of at most MaxLen bytes.
Buffers == UNION {[1..k -> ByteValues] : k \in 0..MaxLen}

\* numParts as /sendingpackage computes it (line 582) can be any integer but 0;
\* the function itself takes 0 as well.
PartCounts == (-1)..MaxParts

\* A shard is a Buffer or null.
NullChunk == [isNull |-> TRUE, bytes |-> <<>>]
BufferChunk(b) == [isNull |-> FALSE, bytes |-> b]

Min(a, b) == IF a < b THEN a ELSE b

\* Math.ceil(a / b) for a >= 0 and b > 0.
Ceil(a, b) == (a + b - 1) \div b

\* buffer.slice(start, end) for 0 <= start and 0 <= end <= buffer.length: a
\* start beyond the end of the buffer gives the empty buffer.
Slice(buffer, start, end) ==
  LET from == Min(start, Len(buffer)) IN
  IF end <= from THEN <<>> ELSE [k \in 1..(end - from) |-> buffer[from + k]]

\* Array(numParts) throws a RangeError for a negative length (line 172).
SplitThrows(buffer, numParts) == Len(buffer) = 0 /\ numParts < 0

\* A split whose chunk size is rounded down.
splitDataset_RoundsDown(buffer, numParts) ==
  IF Len(buffer) = 0 THEN [i \in 1..numParts |-> NullChunk]
  ELSE IF numParts <= 0 THEN <<>>
  ELSE LET chunkSize == Len(buffer) \div numParts IN
       [i \in 1..numParts |->
          BufferChunk(Slice(buffer, (i - 1) * chunkSize,
                            Min((i - 1) * chunkSize + chunkSize, Len(buffer))))]

\* Lines 171-182, where it returns.  An empty and a missing buffer take the
\* same branch (line 172).  With numParts <= 0 and bytes to split the loop of
\* line 175 runs no iteration, whatever chunkSize is.
splitDataset(buffer, numParts) ==
  IF Len(buffer) = 0 THEN [i \in 1..numParts |-> NullChunk]
  ELSE IF numParts <= 0 THEN <<>>
  ELSE LET chunkSize == Ceil(Len(buffer), numParts) IN
       [i \in 1..numParts |->
          BufferChunk(Slice(buffer, (i - 1) * chunkSize,
                            Min((i - 1) * chunkSize + chunkSize, Len(buffer))))]

\* One call of splitDataset; resp records the arguments and what came back.
SplitDataset(buffer, numParts) ==
  /\ resp' = IF SplitThrows(buffer, numParts)
               THEN Resp("splitDataset", 0, NoWorker, "RangeError",
                         [buffer |-> buffer, numParts |-> numParts, chunks |-> <<>>])
               ELSE Resp("splitDataset", 0, NoWorker, "returned",
                         [buffer |-> buffer, numParts |-> numParts,
                          chunks |-> splitDataset(buffer, numParts)])
  /\ UNCHANGED <<now, scope, taskQueue, taskProgressQueue, customers, jobs,
                 taskUpdates, cancelMap, calls, sweep, creating>>

NextSplit == \E buffer \in Buffers, numParts \in PartCounts : SplitDataset(buffer, numParts)

SpecSplit == Init /\ [][NextSplit]_vars

\* The bytes of positions lo .. hi-1 (counted from 0) of a dataset.
ByteRange(b, lo, hi) == [k \in 1..(hi - lo) |-> b[lo + k]]

\* The positions lo .. hi-1.
Positions(lo, hi) == {k \in 0..MaxLen + 1 : lo <= k /\ k < hi}

RECURSIVE Concatenation(_)
Concatenation(chunks) ==
  IF chunks = <<>> THEN <<>>
  ELSE chunks[1].bytes \o Concatenation(Tail(chunks))

\* C25: for a dataset of L >= 0 bytes and N >= 1, splitDataset yields N
\* shards, shard i holding the bytes [i*chunk, min((i+1)*chunk, L)) with
\* chunk = ceil(L/N) (no bytes at all when L = 0); the ranges are pairwise
\* disjoint and the shards put together in index order are the dataset.
C25_SplitCoversDataset ==
  (resp.op = "splitDataset" /\ resp.info.numParts >= 1) =>
    LET b == resp.info.buffer
        N == resp.info.numParts
        L == Len(b)
        shards == resp.info.chunks
        chunk == CHOOSE k \in 0..L : k * N >= L /\ (k - 1) * N < L
        lo(i) == i * chunk
        hi(i) == Min((i + 1) * chunk, L)
    IN  /\ resp.status = "returned"
        /\ Len(shards) = N
        /\ \A i \in 0..(N - 1) : shards[i + 1].bytes = ByteRange(b, lo(i), hi(i))
        /\ \A i, j \in 0..(N - 1) :
             i # j => Positions(lo(i), hi(i)) \cap Positions(lo(j), hi(j)) = {}
        /\ Concatenation(shards) = b

\* C25's case: two bytes split four ways; the last shard would start beyond
\* the end of the dataset and is an empty buffer.
C25_Witness ==
  /\ resp.op = "splitDataset"
  /\ resp.status = "returned"
  /\ resp.info.buffer = <<0, 1>>
  /\ resp.info.numParts = 4
  /\ Len(resp.info.chunks) = 4
  /\ resp.info.chunks[4] = BufferChunk(<<>>)

\* ---------------------------------------------------------------------------
\* Two jobs side by side.
\* ---------------------------------------------------------------------------

\* Both customer ids are in use; time stands still, and nobody polls.
NextTwo ==
  \/ \E c \in CustomerIds, r \in {1, 2} : SendingPackage(c, r, TRUE, FALSE)
  \/ \E c \in CustomerIds : SendingPackageDone(c)
  \/ \E c \in CustomerIds : Cancel(c)
  \/ \E w \in Workers : GetTask(w)
  \/ \E w \in Workers : GetTaskDone(w)
  \/ \E w \in Workers, c \in CustomerIds : UploadResult(w, c, WithOutputs)
  \/ \E w \in Workers : UploadResultStored(w)
  \/ \E w \in Workers : UploadResultDone(w)

SpecTwo == Init /\ [][NextTwo]_vars

NextRescue ==
  \/ Tick(MaxClock)
  \/ SendingPackage(1, 1, TRUE, FALSE)
  \/ SendingPackageDone(1)
  \/ \E w \in Workers : GetTask(w)
  \/ \E w \in Workers : GetTaskDone(w)
  \/ \E w \in Workers : Heartbeat(w, 1)
  \/ \E w \in Workers : UploadResult(w, 1, WithOutputs)
  \/ \E w \in Workers : UploadResultStored(w)
  \/ \E w \in Workers : UploadResultDone(w)
  \/ SweepStart
  \/ SweepResume

SpecRescue == InitSubmit /\ [][NextRescue]_vars

\* The monitor has evicted a worker of job c and has not yet appended the
\* "timed out" update.
TimedOutPending(c) == sweep.pc = "evicting" /\ sweep.cur = c /\ c \in customers

\* When the monitor evicts the worker of a one-unit job, nobody else holds
\* the unit: whoever is assigned before the pass resumes is the rescuer.
RescuerIsWhoeverIsAssigned ==
  [][(SweepStart /\ sweep'.pc = "evicting") =>
       jobs'[sweep'.cur].workers = <<>>]_vars

\* C27: the "timed out" update of an eviction is appended before any update
\* (assignment, result, completion) that the rescuer of the unit produces:
\* while it is pending, the only step that appends an update of the rescuer
\* or a completion to the feed is the one that appends the "timed out"
\* update.
C27_TimedOutBeforeRescue ==
  [][(/\ TimedOutPending(1)
      /\ Len(Feed(taskUpdates', 1)) = Len(Feed(taskUpdates, 1)) + 1
      /\ LET u == Feed(taskUpdates', 1)[Len(Feed(taskUpdates', 1))] IN
         u.worker \in Assigned(1) \/ u.status = "completed")
     => SweepResume]_vars

\* ---------------------------------------------------------------------------
\* Progress of a job that is neither cancelled nor deleted.
\* ---------------------------------------------------------------------------

\* One job of two units, workers that claim, beat, submit and stall, the
\* customer who asks for the results, and the monitor.
NextLive ==
  \/ Tick(MaxClock)
  \/ SendingPackage(1, 2, TRUE, FALSE)
  \/ SendingPackageDone(1)
  \/ \E w \in Workers : GetTask(w)
  \/ \E w \in Workers : GetTaskDone(w)
  \/ \E w \in Workers : Heartbeat(w, 1)
  \/ \E w \in Workers : UploadResult(w, 1, WithOutputs)
  \/ \E w \in Workers : UploadResultStored(w)
  \/ \E w \in Workers : UploadResultDone(w)
  \/ GetResults(1)
  \/ SweepStart
  \/ SweepResume

\* Every worker keeps claiming and submitting, the customer keeps asking for
\* the results, the timer of the monitor keeps firing (setInterval, line
\* 2524), and every await of a handler resolves.  Heartbeats and the passing
\* of time are not forced: a worker may stall.
Fairness ==
  /\ \A w \in Workers :
       /\ WF_vars(GetTask(w))
       /\ WF_vars(GetTaskDone(w))
       /\ WF_vars(UploadResult(w, 1, WithOutputs))
       /\ WF_vars(UploadResultStored(w))
       /\ WF_vars(UploadResultDone(w))
  /\ WF_vars(SendingPackageDone(1))
  /\ WF_vars(GetResults(1))
  /\ WF_vars(SweepStart)
  /\ WF_vars(SweepResume)

SpecLive == Init /\ [][NextLive]_vars /\ Fairness

\* C26: a job that is never cancelled or deleted is eventually completed,
\* whichever workers stall and are evicted on the way.
C26_EventuallyCompleted ==
  (1 \in customers) ~> (1 \in customers /\ jobs[1].isCompleted)

\* ---------------------------------------------------------------------------
\* Counters, flags and results over the life of a job.
\* ---------------------------------------------------------------------------

\* pendingWorkers of an existing job changes only when a submit is counted
\* (one less, not below 0) and when the job is cancelled (0); an eviction
\* leaves it alone.
PendingWorkersChangedBySubmitAndCancel ==
  [][(1 \in customers /\ 1 \in customers'
      /\ jobs'[1].pendingWorkers # jobs[1].pendingWorkers)
     => \/ Cancel(1) /\ jobs'[1].pendingWorkers = 0
        \/ \E w \in Workers :
             /\ UploadResultStored(w)
             /\ calls[w].customerId = 1
             /\ jobs'[1].pendingWorkers = Max(jobs[1].pendingWorkers - 1, 0)]_vars

\* C31: pendingWorkers of a job is never touched by an eviction, only by a
\* counted submit and by cancel, and is never negative.
C31_PendingWorkersNeverNegative ==
  \A c \in customers : jobs[c].pendingWorkers >= 0

\* C32: every customer id with a cancellation flag is the id of an existing
\* job.
C32_FlagOnlyForExistingJob == cancelMap \subseteq customers

\* C33: the result of a submit that has been answered stays where it is, with
\* its value, for as long as the job exists.
C33_AcceptedResultStays ==
  [][\A w \in Workers :
       (/\ 1 \in customers /\ 1 \in customers'
        /\ calls[w].pc = "idle"
        /\ Has(jobs[1].results, w))
       => /\ Has(jobs'[1].results, w)
          /\ jobs'[1].results[w] = jobs[1].results[w]]_vars

\* C35: a pass of the monitor, also one that resumes after a suspension,
\* changes neither the workers, results, usage and output files of a
\* completed job nor the number of its queued units.
C35_CompletedJobFrozen ==
  [][(/\ 1 \in customers /\ 1 \in customers'
      /\ jobs[1].isCompleted
      /\ SweepStart \/ SweepResume)
     => /\ jobs'[1].workers = jobs[1].workers
        /\ jobs'[1].results = jobs[1].results
        /\ jobs'[1].usage = jobs[1].usage
        /\ jobs'[1].outputFiles = jobs[1].outputFiles
        /\ Queued(1)' = Queued(1)]_vars

\* C36: when /uploadresult answers success, the submitted result and usage
\* are stored under the worker, and the worker is assigned to the job.
C36_SuccessMeansStored ==
  [][\A w \in Workers :
       (UploadResultDone(w) /\ resp'.status = "success")
       => LET c == calls[w].customerId IN
          /\ Has(jobs[c].results, w)
          /\ jobs[c].results[w] = calls[w].payload.result
          /\ Has(jobs[c].usage, w)
          /\ jobs[c].usage[w] = calls[w].payload.usage
          /\ w \in Assigned(c)]_vars

\* C38: a job that exists, is neither completed nor cancelled and has a
\* heartbeat entry has an entry in taskProgressQueue; checked in the states in
\* which no handler is suspended.
C38_BeatingJobIsMonitored ==
  \A c \in customers :
    (/\ Quiescent
     /\ ~jobs[c].isCompleted
     /\ c \notin cancelMap
     /\ jobs[c].workerHeartbeats # EmptyMap)
    => Count(taskProgressQueue, c) >= 1

\* ---------------------------------------------------------------------------
\* The status a customer is told (/taskstatus, lines 1088-1111).
\* ---------------------------------------------------------------------------

\* Math.round(a / b * 100) for a >= 0 and b > 0.
RoundPercent(a, b) == (200 * a + b) \div (2 * b)

\* Lines 278-295, for an existing job: isCompleted is computed from the
\* results at hand, the flag of the job is not read.
getTaskProgress(cs, jb, cm, c) ==
  [submitted |-> Cardinality(DOMAIN jb[c].results),
   total |-> jb[c].numWorkers,
   percentage |-> IF jb[c].numWorkers > 0
                    THEN RoundPercent(Cardinality(DOMAIN jb[c].results), jb[c].numWorkers)
                    ELSE 0,
   isCompleted |-> areAllResultsAvailable(cs, jb, c),
   isCancelled |-> c \in cm,
   canDownload |-> areAllResultsAvailable(cs, jb, c) /\ c \notin cm]

\* Lines 1088-1111.
TaskStatus(c) ==
  /\ IF c \notin customers
       THEN /\ resp' = Resp("taskstatus", c, NoWorker, "not-found", 0)
            /\ UNCHANGED reported
       ELSE /\ resp' = Resp("taskstatus", c, NoWorker, "ok",
                            getTaskProgress(customers, jobs, cancelMap, c))
            /\ reported' = IF areAllResultsAvailable(customers, jobs, c)
                             THEN reported \cup {c} ELSE reported
  /\ UNCHANGED <<now, issued, registered, recordFeed, taskQueue, taskProgressQueue,
                 customers, jobs, taskUpdates, cancelMap, calls, sweep, creating>>

\* One job of one unit, workers that claim, beat, submit and stall, the
\* monitor, and the customer who asks for the status.
NextStatus ==
  \/ Tick(MaxClock)
  \/ SendingPackage(1, 1, TRUE, FALSE)
  \/ SendingPackageDone(1)
  \/ \E w \in Workers : GetTask(w)
  \/ \E w \in Workers : GetTaskDone(w)
  \/ \E w \in Workers : Heartbeat(w, 1)
  \/ \E w \in Workers : UploadResult(w, 1, WithOutputs)
  \/ \E w \in Workers : UploadResultStored(w)
  \/ \E w \in Workers : UploadResultDone(w)
  \/ SweepStart
  \/ SweepResume
  \/ TaskStatus(1)

SpecStatus == Init /\ [][NextStatus]_vars

\* C37: once /taskstatus has reported isCompleted = true for a job, no later
\* /taskstatus of that job reports isCompleted = false.
C37_ReportedCompletionStays ==
  (resp.op = "taskstatus" /\ resp.status = "ok" /\ resp.customerId \in reported)
    => resp.info.isCompleted

\* ---------------------------------------------------------------------------
\* Claims on a queue that holds the unit of a deleted job.
\* ---------------------------------------------------------------------------

\* Two jobs of one unit each, customers who delete their job, and workers
\* that claim and submit; time stands still.
NextBlocked ==
  \/ \E c \in CustomerIds : SendingPackage(c, 1, TRUE, FALSE)
  \/ \E c \in CustomerIds : SendingPackageDone(c)
  \/ \E c \in CustomerIds : Delete(c)
  \/ \E w \in Workers : GetTask(w)
  \/ \E w \in Workers : GetTaskDone(w)
  \/ \E w \in Workers, c \in CustomerIds : UploadResult(w, c, WithOutputs)
  \/ \E w \in Workers : UploadResultStored(w)
  \/ \E w \in Workers : UploadResultDone(w)

\* Every worker keeps claiming, and every await of a handler resolves.
FairClaims ==
  /\ \A w \in Workers :
       /\ WF_vars(GetTask(w))
       /\ WF_vars(GetTaskDone(w))
       /\ WF_vars(UploadResultStored(w))
       /\ WF_vars(UploadResultDone(w))
  /\ \A c \in CustomerIds : WF_vars(SendingPackageDone(c))

SpecBlocked == Init /\ [][NextBlocked]_vars /\ FairClaims

\* C34: the queued unit of an existing job that is not cancelled is
\* eventually assigned to a worker (unless the job is deleted first),
\* whatever units of deleted jobs the queue holds.
C34_QueuedUnitEventuallyAssigned ==
  \A c \in CustomerIds :
    (c \in customers /\ c \notin cancelMap /\ Queued(c) >= 1)
      ~> (c \notin customers \/ Assigned(c) # {})
====
